---- MODULE Spec2Model ----
(***************************************************************************)
(* Feedback controller library (libfbc/src/fbc.c): controller state, the   *)
(* control step, the built-in stall heuristic with its file-static         *)
(* history, the confidence query and the three execution drivers.          *)
(*                                                                         *)
(* Every library call is one atomic action; the blocking driver and the    *)
(* background task are split at their only suspension point,               *)
(* taskDelayUntil.  Injected callbacks (sense, compute, a custom           *)
(* stallDetect) are nondeterministic choices from small sets.              *)
(***************************************************************************)
EXTENDS Integers, FiniteSets

(* ------------------------------ bounds --------------------------------- *)

\* largest value of the millisecond timer; unsigned arithmetic wraps above it
MaxTime == 3
\* largest acceptableConfidence a controller is configured with
MaxN == 2

TimerMod == MaxTime + 1
\* the step guards keep a confidence counter at or below acceptableConfidence + 1
MaxConfidence == MaxN + 1

Ctl == {"A", "B"}
\* readings the sensor callback can return
SenseVals == {0, 1, 20}
\* targets handed to fbcSetGoal
GoalVals == {0, 20}
\* values the control law (compute callback) can return
LawVals == {-3, -2, -1, 0, 1, 2, 3}
\* values the output field can hold (fbc.c never assigns it)
OutputVals == {-2, 0, 2}
ToleranceVals == {2, 16}
Timeouts == 0 .. MaxTime

(* --------------------- constants of the header ------------------------- *)

NOT_CONFIDENT == 0
CONFIDENT == 1
\* result of fbcIsConfident when the stall capability reports true
FBC_STALL == -1
\* period of the drivers, in timer ticks
FBC_LOOP_INTERVAL == 2

(* ----------------------------- state ----------------------------------- *)

VARIABLES
  ctls,            \* the controllers that were initialised
  cfg,             \* per controller: the fields fbcInit wires and never changes
  goal,            \* fbc->goal
  _confidence,     \* fbc->_confidence
  _prevExecution,  \* fbc->_prevExecution
  output,          \* fbc->output
  _prev,           \* static int _prev
  _count,          \* static unsigned int _count
  clock,           \* millis()
  mpc,             \* position of the calling thread
  rc,              \* locals of fbcRunCompletion
  tpc,             \* per controller: position of its background task
  ev,              \* what the last library call did
  streak,          \* per controller: in-tolerance steps in a row since reset
  stuckRun,        \* stuck stall checks in a row
  alone,           \* per controller: the stall history it would have by itself
  steady           \* built-in checks since the history was last zero, while they
                   \* all read one value with the exemption never applying

vars == <<ctls, cfg, goal, _confidence, _prevExecution, output, _prev, _count,
          clock, mpc, rc, tpc, ev, streak, stuckRun, alone, steady>>

ctlVars == <<goal, _confidence, _prevExecution>>
stallVars == <<_prev, _count, stuckRun, alone, steady>>
threadVars == <<mpc, rc, tpc>>

(* ----------------------------- helpers --------------------------------- *)

Abs(x) == IF x < 0 THEN -x ELSE x

\* a clamp that forgets the negative side of the dead band
ClampPositiveOnly(out, neg, pos) ==
  IF out < pos /\ out > 0 THEN pos ELSE out

\* a clamp that also lifts a zero output to the positive bound
ClampLiftsZero(out, neg, pos) ==
  IF out < pos /\ out >= 0 THEN pos
  ELSE IF out > neg /\ out < 0 THEN neg
  ELSE out

\* the dead-band clamp of fbcGenerateOutput
Clamp(out, neg, pos) ==
  IF out < pos /\ out > 0 THEN pos
  ELSE IF out > neg /\ out < 0 THEN neg
  ELSE out

\* a confidence update that keeps the counter on an out-of-tolerance step
NextConfidenceKeeps(conf, error, tol) ==
  IF Abs(error) < tol THEN conf + 1 ELSE conf

\* the confidence update of fbcGenerateOutput
NextConfidence(conf, error, tol) ==
  IF Abs(error) < tol THEN conf + 1 ELSE 0

\* fbcGenerateOutput without its stores: the error, the value returned, the new counter
GenerateOutput(f, g, conf, s0, raw) ==
  LET error == g - s0
  IN [error |-> error,
      out |-> Clamp(raw, f.neg_deadband, f.pos_deadband),
      confidence |-> NextConfidence(conf, error, f.acceptableTolerance)]

\* min_stuck of fbcStallDetect
MinStuck(tol) == IF tol \div 8 < 1 THEN 1 ELSE tol \div 8

\* a stall check that keeps the stored previous value when it reports a stall
StallDetectKeepsPrev(f, o, prev, count, s1, s2) ==
  LET delta == Abs(s1 - prev)
      counted == IF delta < MinStuck(f.acceptableTolerance) THEN count + 1 ELSE 0
      stall == counted > f.acceptableConfidence
  IN IF o = f.neg_deadband \/ o = f.pos_deadband
     THEN [prev |-> prev, count |-> 0, stall |-> FALSE]
     ELSE [prev |-> s2, count |-> IF stall THEN 0 ELSE counted, stall |-> stall]

\* a stall check whose dead-band exemption leaves the stuck count as it is
StallDetectExemptKeepsCount(f, o, prev, count, s1, s2) ==
  LET delta == Abs(s1 - prev)
      counted == IF delta < MinStuck(f.acceptableTolerance) THEN count + 1 ELSE 0
      stall == counted > f.acceptableConfidence
  IN IF o = f.neg_deadband \/ o = f.pos_deadband
     THEN [prev |-> prev, count |-> count, stall |-> FALSE]
     ELSE [prev |-> IF stall THEN 0 ELSE s2,
           count |-> IF stall THEN 0 ELSE counted,
           stall |-> stall]

\* a stall check whose report is sticky: the history is not zeroed on a stall
StallDetectSticky(f, o, prev, count, s1, s2) ==
  LET delta == Abs(s1 - prev)
      counted == IF delta < MinStuck(f.acceptableTolerance) THEN count + 1 ELSE 0
  IN IF o = f.neg_deadband \/ o = f.pos_deadband
     THEN [prev |-> prev, count |-> 0, stall |-> FALSE]
     ELSE [prev |-> s2, count |-> counted, stall |-> counted > f.acceptableConfidence]

\* fbcStallDetect on history (prev, count); s1 and s2 are its two sense() readings
StallDetect(f, o, prev, count, s1, s2) ==
  LET min_stuck == MinStuck(f.acceptableTolerance)
      min_count == f.acceptableConfidence
      delta == Abs(s1 - prev)
      counted == IF delta < min_stuck THEN count + 1 ELSE 0
      stall == counted > min_count
  IN IF o = f.neg_deadband \/ o = f.pos_deadband
     THEN [prev |-> prev, count |-> 0, stall |-> FALSE]
     ELSE [prev |-> IF stall THEN 0 ELSE s2,
           count |-> IF stall THEN 0 ELSE counted,
           stall |-> stall]

\* first line of fbcIsConfident
ConfidentOut(conf, n) == IF conf >= n THEN CONFIDENT ELSE NOT_CONFIDENT

\* a capability choice that falls back to the built-in heuristic
StallCapabilityDefaults(sd) == IF sd # "NULL" THEN sd ELSE "fbcStallDetect"

\* which stall capability fbcIsConfident invokes for a stallDetect field
StallCapability(sd) == IF sd # "NULL" THEN sd ELSE "none"

\* a result in which a reached confidence hides the stall
IsConfidentResultConfidentFirst(out, stalled) ==
  IF stalled /\ out = NOT_CONFIDENT THEN FBC_STALL ELSE out

\* the value fbcIsConfident returns
IsConfidentResult(out, stalled) == IF stalled THEN FBC_STALL ELSE out

\* a loop condition in which timeout 0 is an ordinary deadline
HAS_TIMED_OUT_NoZero(timeout, start, now) ==
  ((start + timeout) % TimerMod) >= now

\* HAS_TIMED_OUT of fbcRunCompletion (true while the loop may go on)
HAS_TIMED_OUT(timeout, start, now) ==
  timeout = 0 \/ ((start + timeout) % TimerMod) >= now

\* taskDelayUntil(&now, FBC_LOOP_INTERVAL): the new value of now
DelayUntil(now) == (now + FBC_LOOP_INTERVAL) % TimerMod

\* the loop condition of fbcRunCompletion after a step that returned result
LoopContinues(result, timeout, start, now) ==
  result = NOT_CONFIDENT /\ HAS_TIMED_OUT(timeout, start, now)

\* the value fbcRunCompletion returns once its loop has ended
CompletionReturn(timeout, start, now) == HAS_TIMED_OUT(timeout, start, now)

\* a task that ends once a step reports CONFIDENT or STALLED
TaskStopsWhenDone(result) == IF result # NOT_CONFIDENT THEN "done" ELSE "delay"

\* where _fbcTask goes after a step that returned result
TaskAfterStep(result) == "delay"

(* ------------------------- the stall capability ------------------------ *)

\* a sensed value counts as stuck when it moved by less than min_stuck since the
\* stored previous value and the dead-band exemption does not apply
Stuck(f, o, prev, s1) ==
  /\ o # f.neg_deadband /\ o # f.pos_deadband
  /\ Abs(s1 - prev) < MinStuck(f.acceptableTolerance)

\* the dead-band exemption of fbcStallDetect applies to output field o
Exempt(f, o) == o = f.neg_deadband \/ o = f.pos_deadband

\* no built-in check since the history was last zero
SteadyZero == [ok |-> TRUE, v |-> 0, n |-> 0]

\* the count of built-in checks since the zero history after one more check with
\* readings s1 and s2; it is lost once a reading differs or the exemption applies
SteadyAt(f, o, s1, s2) ==
  IF /\ steady.ok /\ ~Exempt(f, o) /\ s1 = s2
     /\ (steady.n = 0 \/ steady.v = s1)
  THEN [ok |-> TRUE, v |-> s1, n |-> steady.n + 1]
  ELSE [ok |-> FALSE, v |-> 0, n |-> 0]

\* the outcomes of the stall capability fbcIsConfident consults for controller c
StallOutcomes(c) ==
  LET f == cfg[c]
      cap == StallCapability(f.stallDetect)
  IN IF cap = "fbcStallDetect"
     THEN { LET r == StallDetect(f, output[c], _prev, _count, s[1], s[2])
                a == StallDetect(f, output[c], alone[c].prev, alone[c].count, s[1], s[2])
                run == IF Stuck(f, output[c], _prev, s[1]) THEN stuckRun + 1 ELSE 0
            IN [ran |-> cap, stall |-> r.stall, prev |-> r.prev, count |-> r.count,
                run |-> run, runAfter |-> IF r.stall THEN 0 ELSE run,
                alone |-> [prev |-> a.prev, count |-> a.count], aloneStall |-> a.stall,
                exempt |-> Exempt(f, output[c]),
                sensed |-> IF r.stall THEN 0
                           ELSE IF Exempt(f, output[c]) THEN s[1] ELSE s[2],
                count0 |-> IF Exempt(f, output[c]) THEN _count ELSE 0,
                steadyAt |-> SteadyAt(f, output[c], s[1], s[2]),
                steady |-> IF r.stall THEN SteadyZero
                           ELSE SteadyAt(f, output[c], s[1], s[2])]
            : s \in f.sense \X f.sense }
     ELSE { [ran |-> cap, stall |-> b, prev |-> _prev, count |-> _count,
             run |-> 0, runAfter |-> stuckRun,
             alone |-> alone[c], aloneStall |-> FALSE,
             exempt |-> FALSE, sensed |-> 0, count0 |-> 0,
             steadyAt |-> steady, steady |-> steady]
            : b \in IF cap = "custom" THEN BOOLEAN ELSE {FALSE} }

\* the stores of a stall capability outcome
ApplyStall(c, so) ==
  /\ _prev' = so.prev
  /\ _count' = so.count
  /\ stuckRun' = so.runAfter
  /\ alone' = [alone EXCEPT ![c] = so.alone]
  /\ steady' = so.steady

\* the record of a call: which call on which controller, the control-law output
\* and the value returned by the step, the result of the confidence query, the
\* stall capability invoked and its report, how often move, resetSense and
\* resetController were invoked; for fbcSetGoal and fbcReset also the argument, the
\* timer value at the call and the goal, timestamp, confidence counter and output
\* field the call found; for a built-in stall check whether the exemption applied,
\* the last value it read from sense if it reported no stall, the stuck count it
\* found if the exemption applied, and the count of steady checks including this one
NoEv ==
  [op |-> "none", c |-> "A", raw |-> 0, out |-> 0, res |-> 0, ran |-> "none",
   stall |-> FALSE, run |-> 0, aloneStall |-> FALSE, exit |-> "none", ret |-> FALSE,
   moves |-> 0, senseResets |-> 0, controllerResets |-> 0,
   arg |-> 0, now |-> 0, goal0 |-> 0, stamp0 |-> 0, conf0 |-> 0, output0 |-> 0,
   exempt |-> FALSE, sensed |-> 0, count0 |-> 0, steady |-> SteadyZero]

\* the record of a call that consulted the stall capability with outcome so
StallEv(op, c, so, res) ==
  [NoEv EXCEPT !.op = op, !.c = c, !.res = res, !.ran = so.ran, !.stall = so.stall,
               !.run = so.run, !.aloneStall = so.aloneStall,
               !.exempt = so.exempt, !.sensed = so.sensed, !.count0 = so.count0,
               !.steady = so.steadyAt]

(* ------------------------------ Init ----------------------------------- *)

\* the wirings of a controller: every threshold and stall capability, with both
\* optional reset callbacks present; sense and compute are the sets of values the
\* injected sensor and control law can return
Configs ==
  [sense : {SenseVals}, compute : {LawVals},
   neg_deadband : {-2}, pos_deadband : {2},
   acceptableTolerance : ToleranceVals,
   acceptableConfidence : 0 .. MaxN,
   stallDetect : {"NULL", "fbcStallDetect", "custom"},
   resetSense : {TRUE}, resetController : {TRUE}]

\* a controller that is never initialised keeps these values
Unused ==
  [sense |-> {0}, compute |-> {0}, neg_deadband |-> -2, pos_deadband |-> 2, acceptableTolerance |-> 2,
   acceptableConfidence |-> 0, stallDetect |-> "NULL",
   resetSense |-> FALSE, resetController |-> FALSE]

\* the state after fbcInit (which ends in fbcReset) on every controller of cs
InitWith(cs, configs, clocks) ==
  /\ ctls = cs
  /\ \E f \in [cs -> configs] : cfg = [c \in Ctl |-> IF c \in cs THEN f[c] ELSE Unused]
  /\ goal = [c \in Ctl |-> 0]
  /\ _confidence = [c \in Ctl |-> 0]
  /\ _prevExecution = [c \in Ctl |-> 0]
  /\ \E o \in [cs -> OutputVals] : output = [c \in Ctl |-> IF c \in cs THEN o[c] ELSE 0]
  /\ _prev = 0
  /\ _count = 0
  /\ clock \in clocks
  /\ mpc = "idle"
  /\ rc = [fbc |-> "A", timeout |-> 0, now |-> 0, start |-> 0, elapsed |-> 0]
  /\ tpc = [c \in Ctl |-> "none"]
  /\ ev = NoEv
  /\ streak = [c \in Ctl |-> 0]
  /\ stuckRun = 0
  /\ alone = [c \in Ctl |-> [prev |-> 0, count |-> 0]]
  /\ steady = SteadyZero

Init == InitWith({"A"}, Configs, {0})

(* ---------------------- calls of the main thread ----------------------- *)

\* fbcInit(c, ...) on a controller no thread is driving: it wires the fields of f,
\* clears resetController and ends in fbcReset; the control law is not an argument
fbcInit(c, f) ==
  /\ mpc = "idle" /\ tpc[c] = "none"
  /\ cfg' = [cfg EXCEPT ![c] = [f EXCEPT !.resetController = FALSE,
                                         !.compute = cfg[c].compute]]
  /\ _confidence' = [_confidence EXCEPT ![c] = 0]
  /\ goal' = [goal EXCEPT ![c] = 0]
  /\ streak' = [streak EXCEPT ![c] = 0]
  /\ ev' = [NoEv EXCEPT !.op = "fbcInit", !.c = c,
                        !.senseResets = IF f.resetSense THEN 1 ELSE 0]
  /\ UNCHANGED <<ctls, _prevExecution, output, clock, stallVars, threadVars>>

\* the owner of the controller stores v in its output field; fbc.c only reads it
StoreOutput(c, v) ==
  /\ mpc = "idle" /\ tpc[c] = "none"
  /\ output[c] # v
  /\ output' = [output EXCEPT ![c] = v]
  /\ ev' = [NoEv EXCEPT !.op = "store output", !.c = c]
  /\ UNCHANGED <<ctls, cfg, ctlVars, clock, stallVars, threadVars, streak>>

\* what fbcSetGoal and fbcReset found when called on controller c
Found(c, e) ==
  [e EXCEPT !.now = clock, !.goal0 = goal[c], !.stamp0 = _prevExecution[c],
            !.conf0 = _confidence[c], !.output0 = output[c]]

\* a reset that also zeroes the stall history
fbcResetClearsHistory(c) ==
  /\ mpc = "idle"
  /\ _confidence' = [_confidence EXCEPT ![c] = 0]
  /\ goal' = [goal EXCEPT ![c] = 0]
  /\ streak' = [streak EXCEPT ![c] = 0]
  /\ _prev' = 0
  /\ _count' = 0
  /\ ev' = Found(c, [NoEv EXCEPT !.op = "fbcReset", !.c = c,
                        !.senseResets = IF cfg[c].resetSense THEN 1 ELSE 0,
                        !.controllerResets = IF cfg[c].resetController THEN 1 ELSE 0])
  /\ UNCHANGED <<ctls, cfg, _prevExecution, output, clock, stuckRun, alone, steady,
                 threadVars>>

\* a reset that also stamps the time of the call
fbcResetStamps(c) ==
  /\ mpc = "idle"
  /\ _confidence' = [_confidence EXCEPT ![c] = 0]
  /\ goal' = [goal EXCEPT ![c] = 0]
  /\ _prevExecution' = [_prevExecution EXCEPT ![c] = clock]
  /\ streak' = [streak EXCEPT ![c] = 0]
  /\ ev' = Found(c, [NoEv EXCEPT !.op = "fbcReset", !.c = c,
                        !.senseResets = IF cfg[c].resetSense THEN 1 ELSE 0,
                        !.controllerResets = IF cfg[c].resetController THEN 1 ELSE 0])
  /\ UNCHANGED <<ctls, cfg, output, clock, stallVars, threadVars>>

\* fbcReset(c)
fbcReset(c) ==
  /\ mpc = "idle"
  /\ _confidence' = [_confidence EXCEPT ![c] = 0]
  /\ goal' = [goal EXCEPT ![c] = 0]
  /\ streak' = [streak EXCEPT ![c] = 0]
  /\ ev' = Found(c, [NoEv EXCEPT !.op = "fbcReset", !.c = c,
                        !.senseResets = IF cfg[c].resetSense THEN 1 ELSE 0,
                        !.controllerResets = IF cfg[c].resetController THEN 1 ELSE 0])
  /\ UNCHANGED <<ctls, cfg, _prevExecution, output, clock, stallVars, threadVars>>

\* a goal setter that stamps the time on every call
fbcSetGoalAlwaysStamps(c, new_goal) ==
  /\ mpc = "idle"
  /\ goal' = [goal EXCEPT ![c] = new_goal]
  /\ _prevExecution' = [_prevExecution EXCEPT ![c] = clock]
  /\ ev' = Found(c, [NoEv EXCEPT !.op = "fbcSetGoal", !.c = c, !.ret = TRUE,
                                 !.arg = new_goal])
  /\ UNCHANGED <<ctls, cfg, _confidence, output, clock, stallVars, threadVars, streak>>

\* a goal setter that clears the confidence counter when the goal changes
fbcSetGoalClearsConfidence(c, new_goal) ==
  /\ mpc = "idle"
  /\ IF goal[c] = new_goal
     THEN UNCHANGED <<goal, _prevExecution, _confidence>>
     ELSE /\ goal' = [goal EXCEPT ![c] = new_goal]
          /\ _prevExecution' = [_prevExecution EXCEPT ![c] = clock]
          /\ _confidence' = [_confidence EXCEPT ![c] = 0]
  /\ ev' = Found(c, [NoEv EXCEPT !.op = "fbcSetGoal", !.c = c, !.ret = TRUE,
                                 !.arg = new_goal])
  /\ UNCHANGED <<ctls, cfg, output, clock, stallVars, threadVars, streak>>

\* fbcSetGoal(c, new_goal) with a non-null controller
fbcSetGoal(c, new_goal) ==
  /\ mpc = "idle"
  /\ IF goal[c] = new_goal
     THEN UNCHANGED <<goal, _prevExecution>>
     ELSE /\ goal' = [goal EXCEPT ![c] = new_goal]
          /\ _prevExecution' = [_prevExecution EXCEPT ![c] = clock]
  /\ ev' = Found(c, [NoEv EXCEPT !.op = "fbcSetGoal", !.c = c, !.ret = TRUE,
                                 !.arg = new_goal])
  /\ UNCHANGED <<ctls, cfg, _confidence, output, clock, stallVars, threadVars, streak>>

\* the stores of fbcGenerateOutput(c) with reading s0 and control-law output raw
GenerateStores(c, g) ==
  /\ g.confidence <= cfg[c].acceptableConfidence + 1
  /\ _confidence' = [_confidence EXCEPT ![c] = g.confidence]
  /\ _prevExecution' = [_prevExecution EXCEPT ![c] = clock]
  /\ streak' = [streak EXCEPT ![c] =
                  IF Abs(g.error) < cfg[c].acceptableTolerance THEN @ + 1 ELSE 0]

\* fbcGenerateOutput(c) called on its own
fbcGenerateOutput(c) ==
  /\ mpc = "idle"
  /\ \E s0 \in cfg[c].sense, raw \in cfg[c].compute :
       LET g == GenerateOutput(cfg[c], goal[c], _confidence[c], s0, raw)
       IN /\ GenerateStores(c, g)
          /\ ev' = [NoEv EXCEPT !.op = "fbcGenerateOutput", !.c = c,
                                !.raw = raw, !.out = g.out]
  /\ UNCHANGED <<ctls, cfg, goal, output, clock, stallVars, threadVars>>

\* fbcIsConfident(c) called on its own
fbcIsConfident(c) ==
  /\ mpc = "idle"
  /\ \E so \in StallOutcomes(c) :
       LET out == ConfidentOut(_confidence[c], cfg[c].acceptableConfidence)
       IN /\ ApplyStall(c, so)
          /\ ev' = StallEv("fbcIsConfident", c, so, IsConfidentResult(out, so.stall))
  /\ UNCHANGED <<ctls, cfg, ctlVars, output, clock, threadVars, streak>>

\* one fbcRunContinuous(c): fbcGenerateOutput, move, fbcIsConfident; op names the caller
\* in the loop of fbcRunCompletion the record also tells why the loop ended, if it
\* did, and what the call returned
RunContinuousStep(c, op) ==
  \E s0 \in cfg[c].sense, raw \in cfg[c].compute :
    LET g == GenerateOutput(cfg[c], goal[c], _confidence[c], s0, raw)
    IN /\ GenerateStores(c, g)
       /\ \E so \in StallOutcomes(c) :
            LET out == ConfidentOut(g.confidence, cfg[c].acceptableConfidence)
                res == IsConfidentResult(out, so.stall)
                ended == /\ op = "fbcRunCompletion"
                         /\ ~LoopContinues(res, rc.timeout, rc.start, rc.now)
            IN /\ ApplyStall(c, so)
               /\ ev' = [StallEv(op, c, so, res) EXCEPT
                           !.raw = raw, !.out = g.out, !.moves = 1,
                           !.exit = IF ~ended THEN "none"
                                    ELSE IF res # NOT_CONFIDENT THEN "converged"
                                    ELSE "timeout",
                           !.ret = ended /\ CompletionReturn(rc.timeout, rc.start, rc.now)]

\* fbcRunContinuous(c) called on its own
fbcRunContinuous(c) ==
  /\ mpc = "idle"
  /\ RunContinuousStep(c, "fbcRunContinuous")
  /\ UNCHANGED <<ctls, cfg, goal, output, clock, threadVars>>

\* the timer advances
Tick ==
  /\ clock' = (clock + 1) % TimerMod
  /\ UNCHANGED <<ctls, cfg, ctlVars, output, stallVars, threadVars, ev, streak>>

(* ------------------------- fbcRunCompletion ---------------------------- *)

\* the time by which now is ahead of start, were the timer not to wrap, after one
\* more wait; values past every timeout are not told apart
ElapsedAfterDelay(e) ==
  IF e + FBC_LOOP_INTERVAL > MaxTime THEN MaxTime + 1 ELSE e + FBC_LOOP_INTERVAL

\* fbcRunCompletion(c, timeout) up to its loop: the two reads of millis(), between
\* which the timer may advance; elapsed is now - start without the wrap
fbcRunCompletion(c, timeout) ==
  /\ mpc = "idle"
  /\ \E d \in {0, 1} :
       /\ clock' = (clock + d) % TimerMod
       /\ rc' = [fbc |-> c, timeout |-> timeout, now |-> clock, start |-> clock',
                 elapsed |-> -d]
  /\ mpc' = "rc_step"
  /\ ev' = [NoEv EXCEPT !.op = "fbcRunCompletion:call", !.c = c]
  /\ UNCHANGED <<ctls, cfg, ctlVars, output, stallVars, tpc, streak>>

\* one evaluation of the loop condition: a step, then either the wait or the return
RunCompletionStep ==
  /\ mpc = "rc_step"
  /\ RunContinuousStep(rc.fbc, "fbcRunCompletion")
  /\ mpc' = IF ev'.exit = "none" THEN "rc_delay" ELSE "idle"
  /\ UNCHANGED <<ctls, cfg, goal, output, clock, rc, tpc>>

\* the loop body: taskDelayUntil(&now, FBC_LOOP_INTERVAL) advances now by the
\* interval and returns when the timer shows that value
RunCompletionDelay ==
  /\ mpc = "rc_delay"
  /\ rc' = [rc EXCEPT !.now = DelayUntil(rc.now),
                      !.elapsed = ElapsedAfterDelay(rc.elapsed)]
  /\ clock' = rc'.now
  /\ mpc' = "rc_step"
  /\ UNCHANGED <<ctls, cfg, ctlVars, output, stallVars, tpc, ev, streak>>

(* ---------------------- fbcRunParallel, _fbcTask ----------------------- *)

\* fbcRunParallel(c): taskCreate(_fbcTask, ..., c, ...)
fbcRunParallel(c) ==
  /\ mpc = "idle"
  /\ tpc[c] = "none"
  /\ tpc' = [tpc EXCEPT ![c] = "run"]
  /\ ev' = [NoEv EXCEPT !.op = "fbcRunParallel", !.c = c]
  /\ UNCHANGED <<ctls, cfg, ctlVars, output, clock, stallVars, mpc, rc, streak>>

\* _fbcTask of controller c: fbcRunContinuous(fbc)
TaskStep(c) ==
  /\ tpc[c] = "run"
  /\ RunContinuousStep(c, "_fbcTask")
  /\ tpc' = [tpc EXCEPT ![c] = TaskAfterStep(ev'.res)]
  /\ UNCHANGED <<ctls, cfg, goal, output, clock, mpc, rc>>

\* _fbcTask of controller c: taskDelayUntil(&now, FBC_LOOP_INTERVAL) returns
TaskDelay(c) ==
  /\ tpc[c] = "delay"
  /\ tpc' = [tpc EXCEPT ![c] = "run"]
  /\ UNCHANGED <<ctls, cfg, ctlVars, output, clock, stallVars, mpc, rc, ev, streak>>

(* --------------------------- specifications ---------------------------- *)

\* one controller driven by single calls
Next ==
  \/ \E c \in ctls : fbcReset(c)
  \/ \E c \in ctls, g \in GoalVals : fbcSetGoal(c, g)
  \/ \E c \in ctls : fbcGenerateOutput(c)
  \/ \E c \in ctls : fbcIsConfident(c)
  \/ \E c \in ctls : fbcRunContinuous(c)

Spec == Init /\ [][Next]_vars

\* one controller driven by single calls while the timer runs; either optional
\* reset callback may be absent
ConfigsLife ==
  [sense : {{20}}, compute : {{0, 1}},
   neg_deadband : {-2}, pos_deadband : {2},
   acceptableTolerance : {2},
   acceptableConfidence : {1},
   stallDetect : {"NULL", "fbcStallDetect"},
   resetSense : BOOLEAN, resetController : BOOLEAN]

InitLife == InitWith({"A"}, ConfigsLife, {0})

NextLife ==
  \/ \E c \in ctls : fbcReset(c)
  \/ \E c \in ctls, g \in GoalVals : fbcSetGoal(c, g)
  \/ \E c \in ctls : fbcIsConfident(c)
  \/ \E c \in ctls : fbcRunContinuous(c)
  \/ Tick

SpecLife == InitLife /\ [][NextLife]_vars

\* one controller driven by single calls, initialised again at any time, whose
\* output field its owner rewrites
ConfigsHist ==
  [sense : {{0, 20}}, compute : {{0, 1}},
   neg_deadband : {-2}, pos_deadband : {2},
   acceptableTolerance : {2},
   acceptableConfidence : {1, MaxN},
   stallDetect : {"NULL", "fbcStallDetect"},
   resetSense : {TRUE}, resetController : {TRUE}]

InitHist == InitWith({"A"}, ConfigsHist, {0})

NextHist ==
  \/ \E c \in ctls, f \in ConfigsHist : fbcInit(c, f)
  \/ \E c \in ctls : fbcReset(c)
  \/ \E c \in ctls, g \in GoalVals : fbcSetGoal(c, g)
  \/ \E c \in ctls : fbcGenerateOutput(c)
  \/ \E c \in ctls : fbcIsConfident(c)
  \/ \E c \in ctls : fbcRunContinuous(c)
  \/ \E c \in ctls, v \in OutputVals : StoreOutput(c, v)

SpecHist == InitHist /\ [][NextHist]_vars

\* one controller driven by every driver: single calls, the blocking loop and a
\* background task, with the full range of control-law outputs
ConfigsAll ==
  [sense : {{0, 20}}, compute : {LawVals},
   neg_deadband : {-2}, pos_deadband : {2},
   acceptableTolerance : {2},
   acceptableConfidence : {1},
   stallDetect : {"NULL"},
   resetSense : {TRUE}, resetController : {TRUE}]

InitAll ==
  /\ InitWith({"A"}, ConfigsAll, {0})
  /\ output["A"] = 0

NextAll ==
  \/ \E c \in ctls : fbcReset(c)
  \/ \E c \in ctls, g \in GoalVals : fbcSetGoal(c, g)
  \/ \E c \in ctls : fbcRunContinuous(c)
  \/ \E c \in ctls, t \in {0, 1} : fbcRunCompletion(c, t)
  \/ RunCompletionStep
  \/ RunCompletionDelay
  \/ \E c \in ctls : fbcRunParallel(c)
  \/ \E c \in ctls : TaskStep(c)
  \/ \E c \in ctls : TaskDelay(c)

SpecAll == InitAll /\ [][NextAll]_vars

\* one controller driven by the blocking driver from any timer value
ConfigsRun ==
  [sense : {SenseVals}, compute : {{0, 1}},
   neg_deadband : {-2}, pos_deadband : {2},
   acceptableTolerance : {2},
   acceptableConfidence : {MaxN},
   stallDetect : {"NULL", "fbcStallDetect"},
   resetSense : {TRUE}, resetController : {TRUE}]

InitRun ==
  /\ InitWith({"A"}, ConfigsRun, 0 .. MaxTime)
  /\ output["A"] = 0

NextRun ==
  \/ \E c \in ctls, t \in Timeouts : fbcRunCompletion(c, t)
  \/ RunCompletionStep
  \/ RunCompletionDelay
  \/ \E c \in ctls : fbcReset(c)

SpecRun == InitRun /\ [][NextRun]_vars

\* the scheduler runs a ready thread, and taskDelayUntil returns
LiveRun ==
  SpecRun /\ WF_vars(RunCompletionStep) /\ WF_vars(RunCompletionDelay)

\* one controller driven by its background task
NextTask ==
  \/ \E c \in ctls : fbcRunParallel(c)
  \/ \E c \in ctls : TaskStep(c)
  \/ \E c \in ctls : TaskDelay(c)

ConfigsTask ==
  [sense : {SenseVals}, compute : {{0, 1}},
   neg_deadband : {-2}, pos_deadband : {2},
   acceptableTolerance : {2},
   acceptableConfidence : {MaxN},
   stallDetect : {"NULL", "fbcStallDetect", "custom"},
   resetSense : {TRUE}, resetController : {TRUE}]

InitTask ==
  /\ InitWith({"A"}, ConfigsTask, {0})
  /\ output["A"] = 0

SpecTask == InitTask /\ [][NextTask]_vars

\* the scheduler runs a ready task, and taskDelayUntil returns
LiveTask ==
  SpecTask /\ \A c \in Ctl : WF_vars(TaskStep(c)) /\ WF_vars(TaskDelay(c))

\* two controllers with the built-in detector, each driven by its background task
ConfigsPar ==
  [sense : {{0, 20}}, compute : {{0, 1}},
   neg_deadband : {-2}, pos_deadband : {2},
   acceptableTolerance : {2},
   acceptableConfidence : {1},
   stallDetect : {"fbcStallDetect"},
   resetSense : {TRUE}, resetController : {TRUE}]

InitPar ==
  /\ InitWith(Ctl, ConfigsPar, {0})
  /\ \A c \in Ctl : output[c] = 0

SpecPar == InitPar /\ [][NextTask]_vars

TypeOK ==
  /\ _count \in 0 .. MaxConfidence
  /\ \A c \in Ctl : _confidence[c] \in 0 .. MaxConfidence

(* ------------------------------ claims --------------------------------- *)

\* the last call consulted the confidence query (on its own or inside a step)
Queried == ev.op \in {"fbcIsConfident", "fbcRunContinuous", "fbcRunCompletion", "_fbcTask"}

\* the last call ran the control step
Stepped == ev.op \in {"fbcGenerateOutput", "fbcRunContinuous", "fbcRunCompletion", "_fbcTask"}

\* C1: with no stall reported, the confidence query answers CONFIDENT exactly when
\* the number of in-tolerance steps in a row since the last reset or
\* out-of-tolerance step has reached acceptableConfidence, and the counter is that
\* number (so an out-of-tolerance step returns it to 0).
C1_ConfidenceThreshold ==
  \A c \in ctls :
    /\ _confidence[c] = streak[c]
    /\ (Queried /\ ev.c = c /\ ~ev.stall) =>
          ev.res = IF streak[c] >= cfg[c].acceptableConfidence
                   THEN CONFIDENT ELSE NOT_CONFIDENT

\* a step made the run of in-tolerance steps reach a threshold of MaxN and the
\* step reported CONFIDENT
C1_Witness ==
  /\ ev.op = "fbcRunContinuous" /\ ~ev.stall /\ ev.res = CONFIDENT
  /\ cfg[ev.c].acceptableConfidence = MaxN
  /\ streak[ev.c] = MaxN

\* C2: the value a control step returns is posDeadband for a control-law output
\* strictly between 0 and posDeadband, negDeadband for one strictly between
\* negDeadband and 0, and the control-law output itself otherwise (0 included).
C2_DeadbandClamp ==
  Stepped =>
    LET o == ev.raw
        neg == cfg[ev.c].neg_deadband
        pos == cfg[ev.c].pos_deadband
    IN /\ neg < 0 /\ 0 < pos
       /\ (0 < o /\ o < pos) => ev.out = pos
       /\ (neg < o /\ o < 0) => ev.out = neg
       /\ (o = 0 \/ o >= pos \/ o <= neg) => ev.out = o

\* a step whose control law returned a value inside the positive dead band
C2_Witness ==
  /\ ev.op = "fbcGenerateOutput"
  /\ 0 < ev.raw /\ ev.raw < cfg[ev.c].pos_deadband
  /\ ev.out = cfg[ev.c].pos_deadband

\* the last call ran the built-in stall check
BuiltinChecked == Queried /\ ev.ran = "fbcStallDetect"

\* C3: stall history is per controller: a built-in stall check of a controller
\* reports what it would report had that controller been stepped alone with the
\* same readings, and leaves the history that controller alone would have.
C3_PerControllerHistory ==
  BuiltinChecked =>
    /\ ev.stall = ev.aloneStall
    /\ [prev |-> _prev, count |-> _count] = alone[ev.c]

\* C4: a built-in stall check reports a stall exactly when the run of stuck checks
\* (sensed value within min_stuck of the stored previous value, output field not
\* at a dead-band bound) it ends is longer than acceptableConfidence; the run is
\* then exactly acceptableConfidence + 1 long, the stuck count and the previous
\* value are zeroed and a new run starts from nothing; otherwise the stuck count
\* is the length of the run.
C4_OneShotStall ==
  BuiltinChecked =>
    LET n == cfg[ev.c].acceptableConfidence
    IN /\ ev.stall <=> ev.run > n
       /\ ev.stall => (ev.run = n + 1 /\ _prev = 0 /\ _count = 0 /\ stuckRun = 0)
       /\ ~ev.stall => (_count = ev.run /\ stuckRun = ev.run)

\* a stall reported at the end of a run of MaxN + 1 stuck checks
C4_Witness ==
  /\ BuiltinChecked /\ ev.stall
  /\ cfg[ev.c].acceptableConfidence = MaxN
  /\ ev.run = MaxN + 1

\* C5: the confidence query returns one of three distinct values; it is STALLED
\* whenever the stall capability reported true, whatever the confidence counter,
\* and otherwise CONFIDENT exactly when the counter has reached
\* acceptableConfidence and NOT_CONFIDENT when it has not.
C5_TriState ==
  /\ Cardinality({NOT_CONFIDENT, CONFIDENT, FBC_STALL}) = 3
  /\ Queried =>
       LET reached == _confidence[ev.c] >= cfg[ev.c].acceptableConfidence
       IN /\ ev.res \in {NOT_CONFIDENT, CONFIDENT, FBC_STALL}
          /\ ev.stall => ev.res = FBC_STALL
          /\ ~ev.stall => ev.res = IF reached THEN CONFIDENT ELSE NOT_CONFIDENT

\* a stall reported by a capability while the counter had reached a threshold
\* above 0
C5_Witness ==
  /\ Queried /\ ev.stall /\ ev.res = FBC_STALL
  /\ cfg[ev.c].acceptableConfidence > 0
  /\ _confidence[ev.c] >= cfg[ev.c].acceptableConfidence

LoopStepped == ev.op = "fbcRunCompletion"

\* C7: with timeout 0 the blocking driver never ends on elapsed time: it ends only
\* right after a step that returned CONFIDENT or STALLED, and after a step that
\* returned NOT_CONFIDENT it is still in its loop.
C7_ZeroNeverExpires ==
  (LoopStepped /\ rc.timeout = 0) =>
    /\ ev.exit # "timeout"
    /\ ev.exit = "converged" => (ev.res \in {CONFIDENT, FBC_STALL} /\ mpc = "idle")
    /\ ev.res = NOT_CONFIDENT => (ev.exit = "none" /\ mpc \in {"rc_delay", "rc_step"})

\* with timeout 0 the loop is about to step again after a NOT_CONFIDENT step, its
\* now having wrapped past its start
C7_Witness ==
  /\ LoopStepped /\ rc.timeout = 0 /\ ev.res = NOT_CONFIDENT
  /\ mpc = "rc_step" /\ rc.now < rc.start

\* C8: for a timeout above 0 the value fbcRunCompletion returns tells the two
\* exits apart: one value exactly when the loop ended on the timeout, the other
\* exactly when it ended on a CONFIDENT or STALLED step.
C8_ReturnTellsExit ==
  (LoopStepped /\ ev.exit # "none" /\ rc.timeout > 0) =>
    (ev.ret <=> ev.exit = "converged")

\* C9: for a timeout above 0 a started fbcRunCompletion eventually returns.
C9_CompletionReturns ==
  (mpc # "idle" /\ rc.timeout > 0) ~> (mpc = "idle")

\* C10: a spawned background task never stops: from every state on it steps
\* again and waits again, whatever its steps returned.
C10_TaskRunsForever ==
  \A c \in Ctl :
    [](tpc[c] # "none" => (<>(tpc[c] = "run") /\ <>(tpc[c] = "delay")))

\* a task about to step again although its last step reported STALLED
C10_Witness ==
  /\ ev.op = "_fbcTask" /\ ev.res = FBC_STALL
  /\ tpc[ev.c] = "run"

\* C11: fbcSetGoal is idempotent: called with the goal the controller already has
\* it returns true and leaves the goal, the last-execution timestamp, the
\* confidence counter and the output field as it found them; called with a
\* different value it stores that goal and stamps the timer value of the call.
C11_SetGoalIdempotent ==
  ev.op = "fbcSetGoal" =>
    LET c == ev.c
    IN /\ ev.ret
       /\ goal[c] = ev.arg
       /\ _confidence[c] = ev.conf0
       /\ output[c] = ev.output0
       /\ _prevExecution[c] = IF ev.arg = ev.goal0 THEN ev.stamp0 ELSE ev.now

\* a call with the current, non-zero goal made after the timer has moved past the
\* stored timestamp
C11_Witness ==
  /\ ev.op = "fbcSetGoal"
  /\ ev.arg = ev.goal0 /\ ev.arg # 0
  /\ ev.now # ev.stamp0
  /\ _prevExecution[ev.c] = ev.stamp0

\* C12: fbcReset zeroes the confidence counter and the goal, calls resetSense once
\* when it is present and resetController once when it is present (an absent
\* callback is skipped), and leaves the output field and the last-execution
\* timestamp as it found them.
C12_ResetContract ==
  ev.op = "fbcReset" =>
    LET c == ev.c
    IN /\ _confidence[c] = 0
       /\ goal[c] = 0
       /\ ev.senseResets = (IF cfg[c].resetSense THEN 1 ELSE 0)
       /\ ev.controllerResets = (IF cfg[c].resetController THEN 1 ELSE 0)
       /\ output[c] = ev.output0
       /\ _prevExecution[c] = ev.stamp0

\* a reset of a controller with a goal, a non-zero counter, a stale timestamp and
\* only one of the two callbacks present
C12_Witness ==
  /\ ev.op = "fbcReset"
  /\ ev.goal0 # 0 /\ ev.conf0 > 0 /\ ev.now # ev.stamp0
  /\ ~cfg[ev.c].resetSense /\ cfg[ev.c].resetController
  /\ ev.senseResets = 0 /\ ev.controllerResets = 1

\* the calls that may write the confidence counter
ConfidenceWriters == Stepped \/ ev.op = "fbcReset"

\* C18: fbcSetGoal with a new goal leaves the confidence counter alone, so the
\* confidence the query reports right after it is the one it reported before; the
\* counter changes only in a control step or in fbcReset, and the first step after
\* the goal change zeroes it when the new error is out of tolerance and increments
\* it otherwise (the counter stays the run of in-tolerance steps).
C18_GoalChangeKeepsConfidence ==
  /\ [](ev.op = "fbcSetGoal" =>
          /\ _confidence[ev.c] = ev.conf0
          /\ ConfidentOut(_confidence[ev.c], cfg[ev.c].acceptableConfidence)
               = ConfidentOut(ev.conf0, cfg[ev.c].acceptableConfidence))
  /\ [](\A c \in ctls : _confidence[c] = streak[c])
  /\ [][\A c \in ctls : _confidence'[c] # _confidence[c] =>
            (ev'.c = c /\ ConfidenceWriters')]_vars

\* a goal change on a controller that has reached confidence
C18_Witness ==
  /\ ev.op = "fbcSetGoal"
  /\ ev.arg # ev.goal0
  /\ ev.conf0 >= cfg[ev.c].acceptableConfidence
  /\ cfg[ev.c].acceptableConfidence > 0
  /\ _confidence[ev.c] = ev.conf0

\* the last call was one fbcRunContinuous: on its own, in the loop of
\* fbcRunCompletion or in the background task
LoopBody == ev.op \in {"fbcRunContinuous", "fbcRunCompletion", "_fbcTask"}

\* C13: under any sequence of resets, goal changes, fbcRunContinuous calls,
\* fbcRunCompletion loops and background steps, with negDeadband < 0 < posDeadband,
\* move is called exactly once by each fbcRunContinuous and by no other operation,
\* and every value passed to it is 0, at least posDeadband or at most negDeadband.
C13_ActuationSafety ==
  LET neg == cfg[ev.c].neg_deadband
      pos == cfg[ev.c].pos_deadband
  IN /\ ev.moves = (IF LoopBody THEN 1 ELSE 0)
     /\ (ev.moves = 1 /\ neg < 0 /\ 0 < pos) =>
           (ev.out = 0 \/ ev.out >= pos \/ ev.out <= neg)

\* a background step whose control law asked for a value inside the negative
\* dead band, taken after the goal was changed
C13_Witness ==
  /\ ev.op = "_fbcTask" /\ ev.moves = 1
  /\ goal[ev.c] # 0
  /\ ev.raw = -1 /\ ev.out = cfg[ev.c].neg_deadband

\* C14: after every fbcRunContinuous the output field of the controller (the field
\* the stall exemption reads) holds the clamped value that call passed to move.
C14_OutputTracksActuation ==
  LoopBody => output[ev.c] = ev.out

\* C15: after every built-in stall check that reports no stall, the stored previous
\* value is the value that check last read from sense, on every path through the
\* check, the dead-band exemption included.
C15_PrevIsLastSensed ==
  (BuiltinChecked /\ ~ev.stall) => _prev = ev.sensed

\* C16: a built-in stall check on a controller whose output field equals
\* negDeadband or posDeadband reports no stall whatever stuck count it found and
\* leaves the count 0, so a later stall report needs a run of more than
\* acceptableConfidence stuck checks that starts after the exemption.
C16_DeadbandExemption ==
  BuiltinChecked =>
    /\ ev.exempt => (~ev.stall /\ _count = 0 /\ stuckRun = 0 /\ ev.run = 0)
    /\ ev.stall => (~ev.exempt /\ ev.run > cfg[ev.c].acceptableConfidence)

\* an exempted check that found the stuck count at the threshold, where one more
\* stuck check would have reported a stall
C16_Witness ==
  /\ BuiltinChecked /\ ev.exempt
  /\ ev.count0 = cfg[ev.c].acceptableConfidence /\ ev.count0 = MaxN
  /\ ~ev.stall /\ _count = 0

\* C19: from the zero history (program start, or right after a stall report), with
\* sense returning one value v on every check and the output field never at a
\* dead-band bound, the built-in check reports its first stall on check
\* acceptableConfidence + 1 when |v| < min_stuck and on check
\* acceptableConfidence + 2 otherwise, and again after the same number of checks.
C19_StallLatency ==
  (BuiltinChecked /\ ev.steady.ok) =>
    LET f == cfg[ev.c]
        latency == IF Abs(ev.steady.v) < MinStuck(f.acceptableTolerance)
                   THEN f.acceptableConfidence + 1
                   ELSE f.acceptableConfidence + 2
    IN /\ ev.steady.n <= latency
       /\ ev.stall <=> ev.steady.n = latency

\* a stall reported on check acceptableConfidence + 2 of a sensor held at a value
\* away from 0
C19_Witness ==
  /\ BuiltinChecked /\ ev.steady.ok /\ ev.stall
  /\ ev.steady.v = 20
  /\ cfg[ev.c].acceptableConfidence = MaxN
  /\ ev.steady.n = MaxN + 2

\* C20: the stall history _prev/_count changes only in a built-in stall check:
\* fbcReset, fbcInit, fbcSetGoal and fbcGenerateOutput leave it as it is (a stuck
\* count gathered before a reset still counts after it), and every fbcIsConfident
\* call on a controller wired with the built-in detector runs the check, also when
\* it is called on its own.
C20_HistoryOnlyByCheck ==
  /\ [][(_prev' # _prev \/ _count' # _count) => BuiltinChecked']_vars
  /\ []((ev.op = "fbcIsConfident" /\ cfg[ev.c].stallDetect = "fbcStallDetect") =>
          (/\ ev.ran = "fbcStallDetect"
           /\ ~ev.stall => _count = ev.run))

\* a reset that found and left the stuck count at the threshold
C20_Witness ==
  /\ ev.op = "fbcReset"
  /\ cfg[ev.c].stallDetect = "fbcStallDetect"
  /\ _count = cfg[ev.c].acceptableConfidence /\ _count > 0
  /\ ev.conf0 > 0

\* C17: for a timeout T above 0 and steps that all return NOT_CONFIDENT, the loop
\* of fbcRunCompletion waits again exactly while the time from start to now is at
\* most T and ends on the timeout at the first check where it is more than T,
\* for every start and T of the timer type, also when start + T is past its
\* largest value.
C17_TimeRemaining ==
  (LoopStepped /\ rc.timeout > 0 /\ ev.res = NOT_CONFIDENT) =>
    (ev.exit = "timeout" <=> rc.elapsed > rc.timeout)

====
